---- MODULE Spec2Model ----
(***************************************************************************)
(* Model of streamlit_main_findings.py: a Streamlit script that loads a    *)
(* CO2 table, validates and cleans it, reads three widgets and computes    *)
(* three views (Section 8 absolute ranking, Section 9 trend series,        *)
(* Section 10 per-capita ranking).  Streamlit re-executes the whole script *)
(* from the top after every user interaction.                              *)
(*                                                                         *)
(* Representation of values                                                *)
(*   - a missing number (pandas NaN) is NaN; a missing text is NA;         *)
(*   - co2 is held in half units (co2 = 3 means 1.5 Mt), so that sums and  *)
(*     medians with a fractional part exist and the "{:,.0f}" formatting   *)
(*     has something to round;                                             *)
(*   - the year of a loaded (not yet cleaned) row is held in half years    *)
(*     (4029 means 2014.5); astype(int) turns it into whole years;         *)
(*   - a data frame is [columns, rows]; every row carries idx, the pandas  *)
(*     index label (its position in the loaded CSV), which filtering and   *)
(*     sorting keep.  The field of an absent column is NaN / NA.           *)
(***************************************************************************)
EXTENDS Integers, Sequences, FiniteSets, TLC

NaN == 0 - 1
NA == ""

Required == <<"country", "year", "co2", "co2_per_capita">>
Optional == {"iso_code", "population"}
AllColumns == {Required[i] : i \in 1..Len(Required)} \cup Optional

TopN == 10
PoolN == 8
MaxComps == 5
RankDefault == 2014
TrendDefault == 1950
MicroState == 1000000
FocusWidth == 3
PeerWidth == 1
DefaultFocus == "United States"
AggregateCodes == {"OWID_WRL", "OWID_KOS"}

(***************************************************************************)
(* Text: the characters of every country name that occurs in the model.    *)
(***************************************************************************)
Chars(s) ==
  CASE s = "United States" -> <<"U","n","i","t","e","d"," ","S","t","a","t","e","s">>
    [] s = "China" -> <<"C","h","i","n","a">>
    [] s = "India" -> <<"I","n","d","i","a">>
    [] s = "Russia" -> <<"R","u","s","s","i","a">>
    [] s = "Japan" -> <<"J","a","p","a","n">>
    [] s = "Germany" -> <<"G","e","r","m","a","n","y">>
    [] s = "Iran" -> <<"I","r","a","n">>
    [] s = "Canada" -> <<"C","a","n","a","d","a">>
    [] s = "Brazil" -> <<"B","r","a","z","i","l">>
    [] s = "Mexico" -> <<"M","e","x","i","c","o">>
    [] s = "Italy" -> <<"I","t","a","l","y">>
    [] s = "Spain" -> <<"S","p","a","i","n">>
    [] s = "Poland" -> <<"P","o","l","a","n","d">>
    [] s = "Turkey" -> <<"T","u","r","k","e","y">>
    [] s = "World" -> <<"W","o","r","l","d">>
    [] s = "International transport" ->
         <<"I","n","t","e","r","n","a","t","i","o","n","a","l"," ",
           "t","r","a","n","s","p","o","r","t">>
    [] s = "Underworld" -> <<"U","n","d","e","r","w","o","r","l","d">>
    [] s = "Kosovo" -> <<"K","o","s","o","v","o">>
    [] s = "Nauru" -> <<"N","a","u","r","u">>
    [] OTHER -> <<>>

Upper == <<"A","B","C","D","E","F","G","H","I","J","K","L","M",
           "N","O","P","Q","R","S","T","U","V","W","X","Y","Z">>
Lower == <<"a","b","c","d","e","f","g","h","i","j","k","l","m",
           "n","o","p","q","r","s","t","u","v","w","x","y","z">>

FoldChar(ch) ==
  IF \E i \in 1..Len(Upper) : Upper[i] = ch
    THEN Lower[CHOOSE i \in 1..Len(Upper) : Upper[i] = ch]
    ELSE ch

Fold(t) == [i \in 1..Len(t) |-> FoldChar(t[i])]

Search(t, pat) ==
  \E i \in 1..(Len(t) - Len(pat) + 1) : SubSeq(t, i, i + Len(pat) - 1) = pat

\* str.contains(pattern, case=False, na=False) for a pattern of alternatives
ContainsNoCase(s, alternatives) ==
  /\ s # NA
  /\ \E a \in alternatives : Search(Fold(Chars(s)), Fold(a))

AggregatePattern ==
  { <<"W","o","r","l","d">>,
    <<"I","n","t","e","r","n","a","t","i","o","n","a","l">> }

\* the same search without case=False
IsAggregateNameCaseSensitive(s) ==
  s # NA /\ \E a \in AggregatePattern : Search(Chars(s), a)

\* line 56: str.contains("World|International", case=False, na=False)
IsAggregateName(s) == ContainsNoCase(s, AggregatePattern)

(***************************************************************************)
(* Data-frame operations                                                   *)
(***************************************************************************)
\* Boolean-mask indexing df[mask] is SelectSeq: the rows the mask keeps, in frame order.

TextColumns == {"country", "iso_code"}

IsNull(r, col) == IF col \in TextColumns THEN r[col] = NA ELSE r[col] = NaN

\* df.dropna(subset=[col])
DropNa(rows, col) ==
  LET present(r) == ~IsNull(r, col) IN SelectSeq(rows, present)

HeadN(rows, n) == SubSeq(rows, 1, IF Len(rows) < n THEN Len(rows) ELSE n)

\* insert r after every element whose key is >= r's: descending, first occurrence first
RECURSIVE InsertDesc(_, _, _)
InsertDesc(sorted, r, col) ==
  IF sorted = <<>> THEN <<r>>
  ELSE IF Head(sorted)[col] >= r[col]
         THEN <<Head(sorted)>> \o InsertDesc(Tail(sorted), r, col)
         ELSE <<r>> \o sorted

RECURSIVE SortDesc(_, _)
SortDesc(rows, col) ==
  IF rows = <<>> THEN <<>>
  ELSE InsertDesc(SortDesc(SubSeq(rows, 1, Len(rows) - 1), col), rows[Len(rows)], col)

RECURSIVE InsertAsc(_, _, _)
InsertAsc(sorted, r, col) ==
  IF sorted = <<>> THEN <<r>>
  ELSE IF Head(sorted)[col] <= r[col]
         THEN <<Head(sorted)>> \o InsertAsc(Tail(sorted), r, col)
         ELSE <<r>> \o sorted

RECURSIVE SortValues(_, _)
SortValues(rows, col) ==
  IF rows = <<>> THEN <<>>
  ELSE InsertAsc(SortValues(SubSeq(rows, 1, Len(rows) - 1), col), rows[Len(rows)], col)

\* nlargest with keep="last": equal values in reverse frame order
NLargestKeepLast(n, rows, col) ==
  LET missing(r) == IsNull(r, col)
      rev(q) == [i \in 1..Len(q) |-> q[Len(q) + 1 - i]]
  IN  HeadN(rev(SortValues(DropNa(rows, col), col)) \o SelectSeq(rows, missing), n)

\* DataFrame.nlargest(n, col), keep="first": the rows with a value in descending
\* order, equal values in frame order, then the rows without one, cut to n rows
NLargest(n, rows, col) ==
  LET missing(r) == IsNull(r, col)
  IN  HeadN(SortDesc(DropNa(rows, col), col) \o SelectSeq(rows, missing), n)

\* Series.sum(): missing values are skipped, no rows give 0
RECURSIVE SumCol(_, _)
SumCol(rows, col) ==
  IF rows = <<>> THEN 0
  ELSE (IF IsNull(Head(rows), col) THEN 0 ELSE Head(rows)[col]) + SumCol(Tail(rows), col)

\* Series.median(), returned doubled so that the mean of the two middle values
\* stays an integer; missing values are skipped, no rows give NaN
MedianTimes2(rows, col) ==
  LET s == SortValues(DropNa(rows, col), col)
      n == Len(s)
  IN  IF n = 0 THEN NaN
      ELSE IF n % 2 = 1 THEN 2 * s[(n + 1) \div 2][col]
      ELSE s[n \div 2][col] + s[n \div 2 + 1][col]

\* "{:,.0f}" of the number num/den (num >= 0): the nearest whole number, a tie
\* going to the even one; "nan" for NaN.  The result is the number the digits
\* spell (the thousands separators do not change it)
Format0(num, den) ==
  IF num = NaN THEN NaN
  ELSE LET q == num \div den
           r == num % den
       IN  IF 2 * r < den THEN q
           ELSE IF 2 * r > den THEN q + 1
           ELSE IF q % 2 = 0 THEN q ELSE q + 1

\* Series.unique(): the values in order of first appearance
RECURSIVE Unique(_)
Unique(vals) ==
  IF vals = <<>> THEN <<>>
  ELSE LET init == Unique(SubSeq(vals, 1, Len(vals) - 1))
           v == vals[Len(vals)]
       IN  IF \E i \in 1..Len(init) : init[i] = v THEN init ELSE Append(init, v)

Column(rows, col) == [i \in 1..Len(rows) |-> rows[i][col]]

MinOf(S) == CHOOSE x \in S : \A y \in S : x <= y
MaxOf(S) == CHOOSE x \in S : \A y \in S : x >= y
Min2(a, b) == IF a <= b THEN a ELSE b
Max2(a, b) == IF a >= b THEN a ELSE b

(***************************************************************************)
(* Input tables.  The tables a session can meet are drawn from three       *)
(* families: short tables of rows with missing or fractional keys in three *)
(* eras (before 1950, around 2014, after 2014) under every column set with *)
(* one column absent; short tables of edge rows (aggregates, reserved      *)
(* codes, micro-states, missing values, ties); and long tables, a block of *)
(* ordinary countries with at most one edge row before or after it.        *)
(***************************************************************************)
MaxLoadRows == 2
MaxEdgeRows == 2
MaxBulk == 12

Row(c, y, e, pc, iso, pop) ==
  [idx |-> 0, country |-> c, year |-> y, co2 |-> e, co2_per_capita |-> pc,
   iso_code |-> iso, population |-> pop]

\* pd.read_csv: the rows of the file in file order, labelled 0, 1, 2, ...
ReadCsv(cols, rs) ==
  [columns |-> cols,
   rows |-> [i \in 1..Len(rs) |->
               [f \in DOMAIN rs[i] |->
                  IF f = "idx" THEN i - 1
                  ELSE IF f \in cols THEN rs[i][f]
                  ELSE IF f \in TextColumns THEN NA ELSE NaN]]]

Reverse(q) == [i \in 1..Len(q) |-> q[Len(q) + 1 - i]]

\* the rows of palette at the positions in S, in palette order
Pick(palette, S) ==
  LET at == SelectSeq([i \in 1..Len(palette) |-> i], LAMBDA i : i \in S)
  IN  [k \in 1..Len(at) |-> palette[at[k]]]

\* up to n distinct rows of the palette, in palette order or in reverse order
\* (every ordered pair of distinct rows is among them)
Selections(palette, n) ==
  LET few == {S \in SUBSET (1..Len(palette)) : Cardinality(S) <= n}
  IN  {Pick(palette, S) : S \in few} \cup {Reverse(Pick(palette, S)) : S \in few}

Eras == {1948, 2013, 2015}

LoadRows(b) ==
  << Row("China", 2 * b, 20, 7, "CHN", 5000000),
     Row("India", 2 * (b + 1), 11, 2, "IND", 5000000),
     Row(NA, 2 * b, 5, 1, NA, NaN),
     Row("Japan", NaN, 9, 9, "JPN", 2000000),
     Row("United States", 2 * (b + 1) + 1, 31, 16, "USA", 3000000) >>

ColumnSets == {AllColumns} \cup {AllColumns \ {c} : c \in AllColumns}

LoadTables ==
  { ReadCsv(cols, rs) : cols \in ColumnSets,
                        rs \in UNION {Selections(LoadRows(b), MaxLoadRows) : b \in Eras} }

EdgeRows ==
  << Row("World", 4028, 70000, 9, "OWID_WRL", 8000000),
     Row("International transport", 4028, 2401, NaN, NA, NaN),
     Row("Underworld", 4028, 900, 5, "UND", 1000000),
     Row("Kosovo", 4028, 5001, 5, "OWID_KOS", 1800000),
     Row("Nauru", 4028, 1, 40, "NRU", 50000),
     Row("United States", 4028, 5001, 16, "USA", 3000000),
     Row("China", 4028, NaN, 7, "CHN", 9000000),
     Row("China", 4026, 21, 5, "CHN", NaN),
     Row("India", 4028, 6, 16, "IND", NaN),
     Row("India", 4030, 5, 2, "IND", 1000001) >>

OptionalSets == {AllColumns \ o : o \in SUBSET Optional}

EdgeTables ==
  { ReadCsv(cols, rs) : cols \in OptionalSets, rs \in Selections(EdgeRows, MaxEdgeRows) }

BulkNames ==
  <<"United States", "China", "India", "Russia", "Japan", "Germany", "Iran",
    "Canada", "Brazil", "Mexico", "Italy", "Spain", "Poland", "Turkey">>
BulkCo2 == <<10001, 18000, 5001, 3000, 5001, 2500, 1200, 2503, 900, 1201, 900, 8, 900, 18000>>
BulkCpc == <<16, 7, 2, 12, 9, 9, 8, 15, 2, 4, 6, 6, 16, 1>>

Bulk(k) ==
  [i \in 1..k |-> Row(BulkNames[i], 4028, BulkCo2[i], BulkCpc[i], "ISO", 2000000 + i)]

BigTables ==
  { ReadCsv(AllColumns, IF front THEN e \o Bulk(k) ELSE Bulk(k) \o e) :
      k \in (MaxBulk - 2)..MaxBulk,
      e \in Selections(EdgeRows, 1),
      front \in BOOLEAN }

(***************************************************************************)
(* State                                                                   *)
(***************************************************************************)
VARIABLES
  pc,             \* where the current run of the script is
  remote,         \* what load_default() gives: [error, table]
  userfile,       \* the CSV the user has at hand to upload: [present, table]
  use_default,    \* the toggle of line 19
  file,           \* the uploader's value of line 20: [present, table]
  session,        \* the widget values the user has set: [year, focus, range]
  co2,            \* the data frame of the run
  message,        \* the st.error / st.info text of a run that stopped
  min_year, max_year, default_focus,
  year_value,     \* the value= argument of the ranking-year slider
  year_for_rank,
  d,              \* the Section 8 frame the ranking and the metrics are drawn from
  top, world_metric, median_metric,
  focus_country, comps,
  range_value,    \* the value= argument of the year-range slider
  yr_min, yr_max,
  lines,          \* the plotted series, in plotting order
  top_pc,
  rendered,       \* the sections whose output this run has produced
  snapshot,       \* history: the cleaned frame of the first run on the current source
  shown           \* history: what the previous run displayed, kept by a plain rerun

vars ==
  <<pc, remote, userfile, use_default, file, session, co2, message, min_year,
    max_year, default_focus, year_value, year_for_rank, d, top, world_metric,
    median_metric, focus_country, comps, range_value, yr_min, yr_max, lines,
    top_pc, rendered, snapshot, shown>>

NoTable == [columns |-> {}, rows |-> <<>>]
NoFile == [present |-> FALSE, table |-> NoTable]
NoSession == [year |-> NaN, focus |-> NA, range |-> <<>>]
NoSnapshot == [taken |-> FALSE, frame |-> NoTable]
NoShown == [kept |-> FALSE, top |-> <<>>, world_metric |-> NaN, median_metric |-> NaN,
            comps |-> <<>>, lines |-> <<>>, top_pc |-> <<>>]

\* the names a run binds, before the run binds them
Unbound ==
  /\ co2 = NoTable
  /\ message = NA
  /\ min_year = NaN /\ max_year = NaN /\ default_focus = NA
  /\ year_value = NaN /\ year_for_rank = NaN
  /\ d = <<>> /\ top = <<>> /\ world_metric = NaN /\ median_metric = NaN
  /\ focus_country = NA /\ comps = <<>>
  /\ range_value = <<>> /\ yr_min = NaN /\ yr_max = NaN
  /\ lines = <<>> /\ top_pc = <<>>
  /\ rendered = {}

Sources ==
  {[remote |-> [error |-> TRUE, table |-> NoTable], userfile |-> NoFile]}
  \cup {[remote |-> [error |-> FALSE, table |-> t], userfile |-> NoFile] :
          t \in LoadTables \cup EdgeTables \cup BigTables}
  \cup {[remote |-> [error |-> TRUE, table |-> NoTable],
         userfile |-> [present |-> TRUE, table |-> t]] : t \in LoadTables}

Init ==
  /\ \E s \in Sources : remote = s.remote /\ userfile = s.userfile
  /\ pc = "start"
  /\ use_default = TRUE
  /\ file = NoFile
  /\ session = NoSession
  /\ snapshot = NoSnapshot
  /\ shown = NoShown
  /\ Unbound

(***************************************************************************)
(* The script, top to bottom                                               *)
(***************************************************************************)
Stop(text) ==
  /\ message' = text
  /\ pc' = "stopped"

\* lines 19-32: the source toggle, the uploader, the load
Load ==
  /\ pc = "start"
  /\ IF use_default
       THEN IF remote.error
              THEN Stop("Could not load default dataset") /\ UNCHANGED co2
              ELSE co2' = remote.table /\ pc' = "loaded" /\ UNCHANGED message
       ELSE IF ~file.present
              THEN Stop("Upload a CSV to continue.") /\ UNCHANGED co2
              ELSE co2' = file.table /\ pc' = "loaded" /\ UNCHANGED message
  /\ UNCHANGED <<remote, userfile, use_default, file, session, min_year, max_year,
                 default_focus, year_value, year_for_rank, d, top, world_metric,
                 median_metric, focus_country, comps, range_value, yr_min, yr_max,
                 lines, top_pc, rendered, snapshot, shown>>

\* float -> int of astype(int): the fractional part is cut off (years are positive)
AsInt(y) == y \div 2

\* the check without its last column
MissingColumnsButLast(frame) ==
  SelectSeq(SubSeq(Required, 1, Len(Required) - 1), LAMBDA c : c \notin frame.columns)

\* the clean dropping on country alone
CleanedByCountry(frame) ==
  LET keyed == DropNa(frame.rows, "country")
  IN  [frame EXCEPT !.rows = [i \in 1..Len(keyed) |->
                                [keyed[i] EXCEPT !.year = AsInt(keyed[i].year)]]]

\* lines 35-36: the required columns the frame lacks, in the order they are checked
MissingColumns(frame) ==
  SelectSeq(Required, LAMBDA c : c \notin frame.columns)

\* lines 39-40: dropna(subset=["country","year"]), then year as int
Cleaned(frame) ==
  LET keyed == DropNa(DropNa(frame.rows, "country"), "year")
  IN  [frame EXCEPT !.rows = [i \in 1..Len(keyed) |->
                                [keyed[i] EXCEPT !.year = AsInt(keyed[i].year)]]]

\* lines 35-40: the required-column check and the basic clean
Clean ==
  /\ pc = "loaded"
  /\ IF MissingColumns(co2) # <<>>
       THEN /\ Stop("Missing required column: " \o Head(MissingColumns(co2)))
            /\ UNCHANGED <<co2, snapshot>>
       ELSE /\ co2' = Cleaned(co2)
            /\ pc' = "cleaned"
            /\ snapshot' = IF snapshot.taken THEN snapshot
                           ELSE [taken |-> TRUE, frame |-> Cleaned(co2)]
            /\ UNCHANGED message
  /\ UNCHANGED <<remote, userfile, use_default, file, session, min_year, max_year,
                 default_focus, year_value, year_for_rank, d, top, world_metric,
                 median_metric, focus_country, comps, range_value, yr_min, yr_max,
                 lines, top_pc, rendered, shown>>

Years(frame) == {frame.rows[i].year : i \in 1..Len(frame.rows)}
Countries(frame) == {frame.rows[i].country : i \in 1..Len(frame.rows)}

\* line 45: value=min(2014, max_year)
RankValue(hi) == Min2(RankDefault, hi)

\* line 92: value=(max(min_year, 1950), max_year)
RangeValue(lo, hi) == <<Max2(lo, TrendDefault), hi>>

\* st.slider refuses a value= outside [min_value, max_value]
SliderAccepts(lo, hi, value) == lo <= value /\ value <= hi

\* lines 43-45: the year range of the data, the default focus, the ranking-year slider
Filters ==
  /\ pc = "cleaned"
  /\ IF co2.rows = <<>>
       THEN \* int(nan) at line 43
            /\ pc' = "exception"
            /\ UNCHANGED <<min_year, max_year, default_focus, year_value, year_for_rank>>
       ELSE /\ min_year' = MinOf(Years(co2))
            /\ max_year' = MaxOf(Years(co2))
            /\ default_focus' = IF DefaultFocus \in Countries(co2) THEN DefaultFocus
                                ELSE co2.rows[1].country
            /\ year_value' = RankValue(max_year')
            /\ IF SliderAccepts(min_year', max_year', year_value')
                 THEN /\ year_for_rank' = IF session.year # NaN THEN session.year
                                          ELSE year_value'
                      /\ pc' = "filters"
                 ELSE /\ pc' = "exception"
                      /\ UNCHANGED year_for_rank
  /\ UNCHANGED <<remote, userfile, use_default, file, session, co2, message, d, top,
                 world_metric, median_metric, focus_country, comps, range_value,
                 yr_min, yr_max, lines, top_pc, rendered, snapshot, shown>>

\* df[[...]]: the named columns, the index label kept
Project(rows, cols) ==
  [i \in 1..Len(rows) |-> [f \in cols \cup {"idx"} |-> rows[i][f]]]

\* the year slice with only the missing co2 values dropped
RankingFrameUnfiltered(frame, year) ==
  LET ofYear(r) == r.year = year
  IN  DropNa(SelectSeq(frame.rows, ofYear), "co2")

\* lines 55-59: the frame Section 8 ranks and summarises
RankingFrame(frame, year) ==
  LET ofYear(r) == r.year = year
      named(r) == ~IsAggregateName(r.country)
      coded(r) == r.iso_code \notin AggregateCodes
      d1 == SelectSeq(frame.rows, ofYear)
      d2 == SelectSeq(d1, named)
      d3 == IF "iso_code" \in frame.columns THEN SelectSeq(d2, coded) ELSE d2
  IN  DropNa(d3, "co2")

\* line 60
TopAbsoluteEmitters(rows) == Project(NLargest(TopN, rows, "co2"), {"country", "co2"})

\* line 71: co2 is in halves, so the sum is SumCol / 2
WorldMetric(rows) == Format0(SumCol(rows, "co2"), 2)

\* line 72: MedianTimes2 of halves is the median in quarters
MedianMetric(rows) == Format0(MedianTimes2(rows, "co2"), 4)

\* Section 8 filtering the session frame itself instead of a copy of it
Tab8Rebinding ==
  /\ pc = "filters"
  /\ d' = RankingFrame(co2, year_for_rank)
  /\ co2' = [co2 EXCEPT !.rows = d']
  /\ top' = TopAbsoluteEmitters(d')
  /\ world_metric' = WorldMetric(d')
  /\ median_metric' = MedianMetric(d')
  /\ rendered' = rendered \cup {"tab8"}
  /\ pc' = "tab8"
  /\ UNCHANGED <<remote, userfile, use_default, file, session, message, min_year,
                 max_year, default_focus, year_value, year_for_rank, focus_country,
                 comps, range_value, yr_min, yr_max, lines, top_pc, snapshot, shown>>

\* lines 53-73: Section 8
Tab8 ==
  /\ pc = "filters"
  /\ d' = RankingFrame(co2, year_for_rank)
  /\ top' = TopAbsoluteEmitters(d')
  /\ world_metric' = WorldMetric(d')
  /\ median_metric' = MedianMetric(d')
  /\ rendered' = rendered \cup {"tab8"}
  /\ pc' = "tab8"
  /\ UNCHANGED <<remote, userfile, use_default, file, session, co2, message, min_year,
                 max_year, default_focus, year_value, year_for_rank, focus_country,
                 comps, range_value, yr_min, yr_max, lines, top_pc, snapshot, shown>>

\* the pool drawn from the Section 8 frame, aggregates excluded
PoolOfRankingFrame(frame, year) ==
  Column(NLargest(PoolN, RankingFrame(frame, year), "co2"), "country")

\* line 89: the countries of the 8 largest-co2 rows of the ranking year
Pool(frame, year) ==
  LET ofYear(r) == r.year = year
  IN  Column(NLargest(PoolN, SelectSeq(frame.rows, ofYear), "co2"), "country")

\* the pool without the focus country, not cut to 5
CompsUncut(pool, focus) ==
  LET other(c) == c # focus IN SelectSeq(pool, other)

\* line 90
Comps(pool, focus) ==
  LET other(c) == c # focus IN HeadN(SelectSeq(pool, other), MaxComps)

\* lines 94-95
TrendSubset(frame, lo, hi, focus, peers) ==
  LET inRange(r) == r.year >= lo /\ r.year <= hi
      wanted(r) == r.country = focus \/ \E i \in 1..Len(peers) : peers[i] = r.country
  IN  SelectSeq(SelectSeq(frame.rows, inRange), wanted)

\* lines 99-102
LineWidth(c, focus) == IF c = focus THEN FocusWidth ELSE PeerWidth

\* lines 97-102: one plotted line per country of the subset, in order of appearance
TrendSeries(subset, focus) ==
  LET names == Unique(Column(subset, "country"))
      series(c) == LET mine(r) == r.country = c
                   IN  SortValues(SelectSeq(subset, mine), "year")
  IN  [i \in 1..Len(names) |->
         [country |-> names[i],
          linewidth |-> LineWidth(names[i], focus),
          x |-> Column(series(names[i]), "year"),
          y |-> Column(series(names[i]), "co2")]]

\* lines 85-106: Section 9
Tab9 ==
  /\ pc = "tab8"
  /\ focus_country' = IF session.focus # NA THEN session.focus ELSE default_focus
  /\ comps' = Comps(Pool(co2, year_for_rank), focus_country')
  /\ range_value' = RangeValue(min_year, max_year)
  /\ IF /\ SliderAccepts(min_year, max_year, range_value'[1])
        /\ SliderAccepts(min_year, max_year, range_value'[2])
       THEN /\ yr_min' = IF session.range # <<>> THEN session.range[1] ELSE range_value'[1]
            /\ yr_max' = IF session.range # <<>> THEN session.range[2] ELSE range_value'[2]
            /\ lines' = TrendSeries(
                          TrendSubset(co2, yr_min', yr_max', focus_country', comps'),
                          focus_country')
            /\ rendered' = rendered \cup {"tab9"}
            /\ pc' = "tab9"
       ELSE /\ pc' = "exception"
            /\ UNCHANGED <<yr_min, yr_max, lines, rendered>>
  /\ UNCHANGED <<remote, userfile, use_default, file, session, co2, message, min_year,
                 max_year, default_focus, year_value, year_for_rank, d, top,
                 world_metric, median_metric, top_pc, snapshot, shown>>

\* the population test written with >= instead of >
PerCapitaFrameInclusive(frame, year) ==
  LET ofYear(r) == r.year = year
      populous(r) == r.population # NaN /\ r.population >= MicroState
      d1 == SelectSeq(frame.rows, ofYear)
      d2 == IF "population" \in frame.columns THEN SelectSeq(d1, populous) ELSE d1
  IN  DropNa(d2, "co2_per_capita")

\* lines 120-123: the frame Section 10 ranks
PerCapitaFrame(frame, year) ==
  LET ofYear(r) == r.year = year
      populous(r) == r.population # NaN /\ r.population > MicroState
      d1 == SelectSeq(frame.rows, ofYear)
      d2 == IF "population" \in frame.columns THEN SelectSeq(d1, populous) ELSE d1
  IN  DropNa(d2, "co2_per_capita")

\* line 124
TopPerCapitaEmitters(rows) ==
  Project(NLargest(TopN, rows, "co2_per_capita"), {"country", "co2_per_capita"})

\* lines 118-134: Section 10
Tab10 ==
  /\ pc = "tab9"
  /\ top_pc' = TopPerCapitaEmitters(PerCapitaFrame(co2, year_for_rank))
  /\ rendered' = rendered \cup {"tab10"}
  /\ pc' = "done"
  /\ UNCHANGED <<remote, userfile, use_default, file, session, co2, message, min_year,
                 max_year, default_focus, year_value, year_for_rank, d, top,
                 world_metric, median_metric, focus_country, comps, range_value,
                 yr_min, yr_max, lines, snapshot, shown>>

(***************************************************************************)
(* The user.  Every interaction makes Streamlit run the script again from  *)
(* the top, in a fresh namespace.                                          *)
(***************************************************************************)
RunEnded == pc \in {"stopped", "exception", "done"}

Restart ==
  /\ pc' = "start"
  /\ co2' = NoTable
  /\ message' = NA
  /\ min_year' = NaN /\ max_year' = NaN /\ default_focus' = NA
  /\ year_value' = NaN /\ year_for_rank' = NaN
  /\ d' = <<>> /\ top' = <<>> /\ world_metric' = NaN /\ median_metric' = NaN
  /\ focus_country' = NA /\ comps' = <<>>
  /\ range_value' = <<>> /\ yr_min' = NaN /\ yr_max' = NaN
  /\ lines' = <<>> /\ top_pc' = <<>>
  /\ rendered' = {}

Displayed ==
  [kept |-> TRUE, top |-> top, world_metric |-> world_metric,
   median_metric |-> median_metric, comps |-> comps, lines |-> lines, top_pc |-> top_pc]

\* the ranking-year slider (line 45) is moved
ChangeYear ==
  /\ RunEnded /\ year_for_rank # NaN
  /\ \E y \in min_year..max_year :
       /\ y # year_for_rank
       /\ session' = [session EXCEPT !.year = y]
  /\ shown' = NoShown
  /\ Restart
  /\ UNCHANGED <<remote, userfile, use_default, file, snapshot>>

\* another country is picked in the select box (line 87)
ChangeFocus ==
  /\ RunEnded /\ focus_country # NA
  /\ \E c \in Countries(co2) :
       /\ c # focus_country
       /\ session' = [session EXCEPT !.focus = c]
  /\ shown' = NoShown
  /\ Restart
  /\ UNCHANGED <<remote, userfile, use_default, file, snapshot>>

\* the year-range slider (line 92) is moved
ChangeRange ==
  /\ RunEnded /\ yr_min # NaN
  /\ \E a \in min_year..max_year : \E b \in a..max_year :
       /\ <<a, b>> # <<yr_min, yr_max>>
       /\ session' = [session EXCEPT !.range = <<a, b>>]
  /\ shown' = NoShown
  /\ Restart
  /\ UNCHANGED <<remote, userfile, use_default, file, snapshot>>

\* the source toggle (line 19) is flipped: the widgets below it start afresh
ToggleSource ==
  /\ RunEnded
  /\ use_default' = ~use_default
  /\ file' = NoFile
  /\ session' = NoSession
  /\ snapshot' = NoSnapshot
  /\ shown' = NoShown
  /\ Restart
  /\ UNCHANGED <<remote, userfile>>

\* a CSV is handed to the uploader (line 20)
UploadFile ==
  /\ RunEnded /\ ~use_default /\ userfile.present /\ ~file.present
  /\ file' = userfile
  /\ session' = NoSession
  /\ snapshot' = NoSnapshot
  /\ shown' = NoShown
  /\ Restart
  /\ UNCHANGED <<remote, userfile, use_default>>

\* the script is run again with nothing changed
Rerun ==
  /\ pc = "done" /\ ~shown.kept
  /\ shown' = Displayed
  /\ Restart
  /\ UNCHANGED <<remote, userfile, use_default, file, session, snapshot>>

Next ==
  \/ Load
  \/ Clean
  \/ Filters
  \/ Tab8
  \/ Tab9
  \/ Tab10
  \/ ChangeYear
  \/ ChangeFocus
  \/ ChangeRange
  \/ ToggleSource
  \/ UploadFile

Spec == Init /\ [][Next]_vars

NextReplay == Next \/ Rerun

\* a session on a long table or on an upload, in which the user also reruns the script
ReplaySources ==
  {[remote |-> [error |-> TRUE, table |-> NoTable], userfile |-> NoFile]}
  \cup {[remote |-> [error |-> FALSE, table |-> t], userfile |-> NoFile] : t \in BigTables}
  \cup {[remote |-> [error |-> TRUE, table |-> NoTable],
         userfile |-> [present |-> TRUE, table |-> t]] : t \in LoadTables}

InitReplay ==
  /\ \E s \in ReplaySources : remote = s.remote /\ userfile = s.userfile
  /\ pc = "start"
  /\ use_default = TRUE
  /\ file = NoFile
  /\ session = NoSession
  /\ snapshot = NoSnapshot
  /\ shown = NoShown
  /\ Unbound

SpecReplay == InitReplay /\ [][NextReplay]_vars

(***************************************************************************)
(* Vocabulary of the properties.  Each is stated from the rows of the      *)
(* frame, by counting, not with the operators the actions compute with.    *)
(***************************************************************************)
RowSet(frame) == {frame.rows[i] : i \in 1..Len(frame.rows)}
RowAt(frame, label) == CHOOSE r \in RowSet(frame) : r.idx = label
YearSlice(frame, year) == {r \in RowSet(frame) : r.year = year}

\* the table the current source gave to the run
Loaded == IF use_default THEN remote.table ELSE file.table

HasCleanFrame == pc \in {"cleaned", "filters", "tab8", "tab9", "done", "exception"}

LowerWorld == <<"w","o","r","l","d">>
LowerInternational == <<"i","n","t","e","r","n","a","t","i","o","n","a","l">>

\* the name holds "world" or "international" once every letter is lowered
MentionsAggregate(name) ==
  LET t == Fold(Chars(name))
  IN  \E i \in 1..Len(t) : \E j \in i..Len(t) :
        SubSeq(t, i, j) \in {LowerWorld, LowerInternational}

IsAggregateRow(frame, r) ==
  \/ MentionsAggregate(r.country)
  \/ "iso_code" \in frame.columns /\ r.iso_code \in {"OWID_WRL", "OWID_KOS"}

RECURSIVE SumOf(_, _)
SumOf(S, col) ==
  IF S = {} THEN 0
  ELSE LET r == CHOOSE x \in S : TRUE IN r[col] + SumOf(S \ {r}, col)

\* the k-th smallest value of col over S (rows with a value), counted with repeats
KthSmallest(S, col, k) ==
  CHOOSE v \in {r[col] : r \in S} :
    /\ Cardinality({r \in S : r[col] < v}) < k
    /\ Cardinality({r \in S : r[col] <= v}) >= k

\* m is num/den rounded to a whole number, a tie going to the even neighbour
IsRounded(m, num, den) ==
  \/ (2 * m - 1) * den < 2 * num /\ 2 * num < (2 * m + 1) * den
  \/ m % 2 = 0 /\ (2 * num = (2 * m - 1) * den \/ 2 * num = (2 * m + 1) * den)

\* r comes before s in a ranking by col: larger value first, a missing value
\* last, rows that tie in frame order (idx grows along the frame)
Before(r, s, col) ==
  \/ r[col] # NaN /\ s[col] = NaN
  \/ r[col] # NaN /\ s[col] # NaN /\ r[col] > s[col]
  \/ r[col] = s[col] /\ r.idx < s.idx

RankIn(S, r, col) == Cardinality({s \in S : Before(s, r, col)}) + 1

\* seq lists, projected to cols, the first n rows of S in ranking order by col
IsRanking(seq, S, col, n, cols) ==
  /\ Len(seq) = (IF Cardinality(S) < n THEN Cardinality(S) ELSE n)
  /\ \A p \in 1..Len(seq) :
       \E r \in S :
         /\ RankIn(S, r, col) = p
         /\ seq[p] = [f \in cols \cup {"idx"} |-> r[f]]

(***************************************************************************)
(* C1: the Section 8 ranking holds at most 10 records; each is a record of *)
(* the ranking year with a co2 value; they are in non-increasing co2       *)
(* order; none has a country mentioning "World" or "International" in any  *)
(* letter case, nor, when the frame has an iso_code column, the code       *)
(* OWID_WRL or OWID_KOS.                                                   *)
(***************************************************************************)
\* C1: at most 10 ranked records, each of the ranking year with a co2 value,
\* none an aggregate row, in non-increasing co2 order.
C1_RankingContract ==
  "tab8" \in rendered =>
    /\ Len(top) <= 10
    /\ \A i \in 1..Len(top) :
         LET r == RowAt(co2, top[i].idx)
         IN  /\ \E x \in RowSet(co2) : x.idx = top[i].idx
             /\ r.country = top[i].country /\ r.co2 = top[i].co2
             /\ r.year = year_for_rank
             /\ r.co2 # NaN
             /\ ~MentionsAggregate(r.country)
             /\ "iso_code" \in co2.columns => r.iso_code \notin {"OWID_WRL", "OWID_KOS"}
    /\ \A i \in 1..Len(top) : \A j \in i..Len(top) : top[i].co2 >= top[j].co2

\* C1 witness: a full ranking drawn from more than 10 eligible records, in a year that also
\* holds an aggregate row larger than every ranked one
C1_Witness ==
  /\ "tab8" \in rendered
  /\ Len(top) = 10
  /\ Cardinality({r \in YearSlice(co2, year_for_rank) :
                    r.co2 # NaN /\ ~IsAggregateRow(co2, r)}) > 10
  /\ \E r \in YearSlice(co2, year_for_rank) :
       IsAggregateRow(co2, r) /\ r.co2 # NaN /\ r.co2 > top[1].co2

(***************************************************************************)
(* C2: the sum and the median displayed beside the Section 8 ranking are   *)
(* those of co2 over the records the ranking is drawn from: the records of *)
(* the ranking year that are not aggregate rows and have a co2 value.      *)
(***************************************************************************)
RankedSet ==
  {r \in YearSlice(co2, year_for_rank) : r.co2 # NaN /\ ~IsAggregateRow(co2, r)}

\* twice the median of co2 over S (S not empty)
TwiceMedian(S) ==
  LET n == Cardinality(S)
  IN  KthSmallest(S, "co2", (n + 1) \div 2) + KthSmallest(S, "co2", n \div 2 + 1)

\* C2 as claimed: the displayed numbers are the sum and the median themselves
\* (co2 is in halves: the sum is SumOf/2, the median TwiceMedian/4).
C2_MetricsExact ==
  "tab8" \in rendered =>
    /\ 2 * world_metric = SumOf(RankedSet, "co2")
    /\ RankedSet # {} => 4 * median_metric = TwiceMedian(RankedSet)

\* C2 as amended: the displayed numbers are the sum and the median of co2 over
\* the ranked set, rounded to a whole
\* number, a tie going to the even neighbour; over no records the sum shows 0 and
\* the median shows nan.
C2_MetricsRounded ==
  "tab8" \in rendered =>
    /\ IsRounded(world_metric, SumOf(RankedSet, "co2"), 2)
    /\ IF RankedSet = {} THEN median_metric = NaN
       ELSE IsRounded(median_metric, TwiceMedian(RankedSet), 4)

\* C2 witness: more than 10 ranked records beside an aggregate row of the same year, with a
\* fractional sum and a median that is not a whole number
C2_Witness ==
  /\ "tab8" \in rendered
  /\ Cardinality(RankedSet) > 10
  /\ \E r \in YearSlice(co2, year_for_rank) : IsAggregateRow(co2, r) /\ r.co2 # NaN
  /\ SumOf(RankedSet, "co2") % 2 = 1
  /\ TwiceMedian(RankedSet) % 4 # 0

(***************************************************************************)
(* C3: the trend view plots at most 6 distinct countries; when the focus   *)
(* country has a record inside the year range its series is plotted, and   *)
(* it is the only one drawn with linewidth 3, every other with linewidth 1.*)
(***************************************************************************)
InRange(r) == yr_min <= r.year /\ r.year <= yr_max
Plotted == {lines[i].country : i \in 1..Len(lines)}

PoolRows ==
  LET Y == YearSlice(co2, year_for_rank)
  IN  {r \in Y : RankIn(Y, r, "co2") <= 8}

PeerRows == {r \in PoolRows : r.country # focus_country}

C4_NoMicroStateRanked ==
  ("tab10" \in rendered /\ "population" \in co2.columns) =>
    \A i \in 1..Len(top_pc) :
      LET r == RowAt(co2, top_pc[i].idx)
      IN  /\ \E x \in RowSet(co2) : x.idx = top_pc[i].idx
          /\ r.country = top_pc[i].country
          /\ ~(r.population # NaN /\ r.population <= 1000000)

\* C4 witness: a ranking is shown while the year holds a 50,000-people record
\* whose co2_per_capita exceeds every ranked one
C4_Witness ==
  /\ "tab10" \in rendered /\ "population" \in co2.columns
  /\ top_pc # <<>>
  /\ \E r \in YearSlice(co2, year_for_rank) :
       r.population = 50000 /\ r.co2_per_capita > top_pc[1].co2_per_capita

(***************************************************************************)
(* C10: the Section 10 ranking is the reference result: of the records of  *)
(* the ranking year, without those of population <= 1,000,000 (when there  *)
(* is a population column) and without those lacking co2_per_capita, the   *)
(* 10 with the largest co2_per_capita, descending, equal values in input   *)
(* order; empty when no record remains.                                    *)
(***************************************************************************)
\* The reference as claimed: a record whose population is missing is not
\* "<= 1,000,000", so the reference keeps it.
ReferenceAsClaimed ==
  {r \in YearSlice(co2, year_for_rank) :
     /\ r.co2_per_capita # NaN
     /\ "population" \in co2.columns => ~(r.population # NaN /\ r.population <= 1000000)}

\* C10 as claimed: the Section 10 ranking is the first 10 of ReferenceAsClaimed by
\* co2_per_capita, descending, equal values in input order.
C10_ReferenceAsClaimed ==
  "tab10" \in rendered =>
    IsRanking(top_pc, ReferenceAsClaimed, "co2_per_capita", 10, {"country", "co2_per_capita"})

\* The reference as amended: with a population column only the records whose
\* population is known and above 1,000,000 are kept.
ReferenceAmended ==
  {r \in YearSlice(co2, year_for_rank) :
     /\ r.co2_per_capita # NaN
     /\ "population" \in co2.columns => (r.population # NaN /\ r.population > 1000000)}

\* C10 as amended: the Section 10 ranking is the first 10 of ReferenceAmended by
\* co2_per_capita, descending, equal values in input order; empty when
\* ReferenceAmended is empty.
C10_ReferenceAmended ==
  "tab10" \in rendered =>
    IsRanking(top_pc, ReferenceAmended, "co2_per_capita", 10, {"country", "co2_per_capita"})

\* C10 witness: a full ranking cut from more than 10 records, with two equal values in it, in a
\* year that also holds a record with co2_per_capita and no population
C10_Witness ==
  /\ "tab10" \in rendered /\ "population" \in co2.columns
  /\ Len(top_pc) = 10 /\ Cardinality(ReferenceAmended) > 10
  /\ \E i \in 1..9 : top_pc[i].co2_per_capita = top_pc[i + 1].co2_per_capita
  /\ \E r \in YearSlice(co2, year_for_rank) : r.population = NaN /\ r.co2_per_capita # NaN

RequiredSet == {"country", "year", "co2", "co2_per_capita"}
FetchFailed == use_default /\ remote.error
TableLoaded == (use_default /\ ~remote.error) \/ (~use_default /\ file.present)
LacksRequired == TableLoaded /\ ~(RequiredSet \subseteq Loaded.columns)

\* C6: a failed fetch or a missing required column stops the run with an error
\* and no view; nothing else stops it but a missing upload.
C6_LoadFailureHalts ==
  /\ (FetchFailed /\ pc # "start") =>
       pc = "stopped" /\ message = "Could not load default dataset" /\ rendered = {}
  /\ (LacksRequired /\ pc \notin {"start", "loaded"}) =>
       /\ pc = "stopped" /\ rendered = {}
       /\ \E c \in RequiredSet \ Loaded.columns : message = "Missing required column: " \o c
  /\ (LacksRequired \/ FetchFailed) => rendered = {}
  /\ pc = "stopped" => FetchFailed \/ LacksRequired \/ (~use_default /\ ~file.present)

\* C6 witness: an uploaded file without a required column has stopped the run
C6_Witness ==
  /\ ~use_default /\ file.present /\ LacksRequired
  /\ Optional \subseteq Loaded.columns
  /\ Loaded.rows # <<>>
  /\ pc = "stopped"

(***************************************************************************)
(* C7: after the clean the frame holds exactly the loaded records that     *)
(* have a country and a year, in file order, each with a whole-number     *)
(* year; this holds wherever a view is computed.                           *)
(***************************************************************************)
Keyed == {r \in RowSet(Loaded) : r.country # NA /\ r.year # NaN}

\* C7: the cleaned frame is the loaded records with country and year, in file
\* order, the year a whole number.
C7_CleanKeepsKeyedRecords ==
  HasCleanFrame =>
    /\ \A i \in 1..Len(co2.rows) :
         /\ co2.rows[i].country # NA
         /\ co2.rows[i].year # NaN
         /\ \E r \in Keyed :
              /\ r.idx = co2.rows[i].idx
              /\ 2 * co2.rows[i].year <= r.year /\ r.year < 2 * (co2.rows[i].year + 1)
              /\ co2.rows[i] = [r EXCEPT !.year = co2.rows[i].year]
         /\ \A j \in 1..Len(co2.rows) : i < j => co2.rows[i].idx < co2.rows[j].idx
    /\ \A r \in Keyed : \E i \in 1..Len(co2.rows) : co2.rows[i].idx = r.idx
    /\ co2.columns = Loaded.columns

\* C7 witness: the views are computed on a frame from which a record without a
\* key was dropped and in which a record with a fractional year was kept
C7_Witness ==
  /\ pc = "done" /\ rendered = {"tab8", "tab9", "tab10"}
  /\ \E r \in RowSet(Loaded) : r.country = NA \/ r.year = NaN
  /\ \E r \in Keyed : r.year % 2 = 1

(***************************************************************************)
(* C8: the value= handed to each slider, and the value each slider gives,  *)
(* lies inside [min_year, max_year]: min_year <= ranking year <= max_year  *)
(* and min_year <= yr_min <= yr_max <= max_year, also for data wholly      *)
(* after 2014 or wholly before 1950.                                       *)
(***************************************************************************)
\* C8: every slider default and every slider value lies inside
\* [min_year, max_year].
C8_ControlsInsideYearRange ==
  /\ year_value # NaN => min_year <= year_value /\ year_value <= max_year
  /\ year_for_rank # NaN => min_year <= year_for_rank /\ year_for_rank <= max_year
  /\ range_value # <<>> =>
       min_year <= range_value[1] /\ range_value[1] <= range_value[2]
         /\ range_value[2] <= max_year
  /\ yr_min # NaN => min_year <= yr_min /\ yr_min <= yr_max /\ yr_max <= max_year

\* C8, the ranking-year default alone
C8_RankDefaultInside ==
  year_value # NaN => min_year <= year_value /\ year_value <= max_year

\* C8, the year-range default alone
C8_RangeDefaultInside ==
  range_value # <<>> =>
    min_year <= range_value[1] /\ range_value[1] <= range_value[2]
      /\ range_value[2] <= max_year

====
